---- MODULE Spec2Model ----
(***************************************************************************)
(* A model of the raft3d replicated state machine: the FSM that turns the  *)
(* committed command log into printers, filaments and print jobs           *)
(* (raft/fsm.go), with the command and status rules of api/models, its     *)
(* snapshots and its lock, Node.Apply (raft/node.go), the transport        *)
(* (raft/transport.go: ForwardToLeader, JoinCluster, LeaveCluster and      *)
(* RaftHandler), the write path of the API (RaftLeaderMiddleware and the   *)
(* handlers) and the Store of raft/fsm.go in its two modes.                *)
(***************************************************************************)
EXTENDS Integers, Sequences, FiniteSets, TLC

(***************************************************************************)
(* Bounds of the model.                                                    *)
(***************************************************************************)
\* Largest weight in grams a command payload carries.
MaxWeight == 2

\* Identifiers that commands may name.
PrinterIDs == {"p1"}
FilamentIDs == {"f1", "f2"}
JobIDs == {"j1", "j2"}

\* print_weight_in_grams of a job payload: a small job and the largest one.
PrintWeights == {1, MaxWeight}
\* total_weight_in_grams of a filament payload.
TotalWeights == {MaxWeight}
\* remaining_weight_in_grams of a filament payload: a Go int, it may be negative.
RemainingWeights == {0 - 1, 0, MaxWeight}

(***************************************************************************)
(* api/models: command types, statuses, entities.                          *)
(***************************************************************************)
AddPrinter == "ADD_PRINTER"
AddFilament == "ADD_FILAMENT"
AddPrintJob == "ADD_PRINT_JOB"
UpdatePrintJob == "UPDATE_PRINT_JOB"

\* The four statuses IsValidPrintJobStatus accepts.
ValidStatuses == {"Queued", "Running", "Done", "Canceled"}
\* Status strings a payload may carry: the valid ones, the empty string and another string.
StatusStrings == ValidStatuses \cup {"", "Paused"}

\* Status of an AddPrintJob payload: what CreatePrintJob sends, and another one.
PayloadStatuses == {"Queued", "Done"}

\* A nil pointer in a command.
Nil == [nil |-> TRUE]

Printer(id) == [ID |-> id]
Filament(id, total, remaining) ==
    [ID |-> id, TotalWeightInGrams |-> total, RemainingWeightInGrams |-> remaining]
PrintJob(id, printer, filament, weight, status) ==
    [ID |-> id, PrinterID |-> printer, FilamentID |-> filament,
     PrintWeightInGrams |-> weight, Status |-> status]

Command(type, printer, filament, job, jobID, newStatus) ==
    [Type |-> type, Printer |-> printer, Filament |-> filament, PrintJob |-> job,
     JobID |-> jobID, NewStatus |-> newStatus]

\* Log data that is not the JSON of a command.
Garbage == [garbage |-> TRUE]

\* json.Marshal of a command: a JSON object with "type" and with each other field that is
\* not empty (omitempty).
Marshal(c) ==
    LET value(k) == CASE k = "type" -> c.Type
                      [] k = "printer" -> c.Printer
                      [] k = "filament" -> c.Filament
                      [] k = "print_job" -> c.PrintJob
                      [] k = "job_id" -> c.JobID
                      [] k = "new_status" -> c.NewStatus
        present == {"type"}
                   \cup {k \in {"printer", "filament", "print_job"} : value(k) # Nil}
                   \cup {k \in {"job_id", "new_status"} : value(k) # ""}
    IN [json |-> [k \in present |-> value(k)]]

\* The value of key k in a JSON object, or the zero value that the decoder leaves in the
\* field when the key is absent.
JSONField(obj, k, zero) == IF k \in DOMAIN obj THEN obj[k] ELSE zero

\* json.Unmarshal of the log data into a Command. Log data is bytes that are not JSON, or
\* a JSON object, or, written as the command it decodes to, the JSON of that command.
UnmarshalCommand(data) ==
    IF data = Garbage THEN [ok |-> FALSE, cmd |-> Nil]
    ELSE IF "json" \in DOMAIN data
    THEN [ok |-> TRUE,
          cmd |-> Command(JSONField(data.json, "type", ""),
                          JSONField(data.json, "printer", Nil),
                          JSONField(data.json, "filament", Nil),
                          JSONField(data.json, "print_job", Nil),
                          JSONField(data.json, "job_id", ""),
                          JSONField(data.json, "new_status", ""))]
    ELSE [ok |-> TRUE, cmd |-> data]

\* A status check that lets a Queued job go to any valid status.
ValidateStatusChangeLoose(currentStatus, newStatus) ==
    CASE currentStatus = "Queued" -> newStatus \in ValidStatuses \ {"Queued"}
      [] currentStatus = "Running" -> newStatus = "Done" \/ newStatus = "Canceled"
      [] OTHER -> FALSE

\* ValidateStatusChange: TRUE when it returns nil.
ValidateStatusChange(currentStatus, newStatus) ==
    CASE currentStatus = "Queued" -> newStatus = "Running" \/ newStatus = "Canceled"
      [] currentStatus = "Running" -> newStatus = "Done" \/ newStatus = "Canceled"
      [] OTHER -> FALSE

(***************************************************************************)
(* Results of FSM.Apply: nil, or an error.                                 *)
(***************************************************************************)
Result(kind, args) == [kind |-> kind, args |-> args]
OK == Result("nil", <<>>)
NoResult == Result("none", <<>>)
Panic == Result("panic", <<>>)
Err(kind) == Result(kind, <<>>)
ErrNotEnough(available, required) == Result("InsufficientCapacity", <<available, required>>)

(***************************************************************************)
(* State of one FSM.                                                       *)
(***************************************************************************)
VARIABLES
    printers,    \* f.printers: id -> Printer
    filaments,   \* f.filaments: id -> Filament
    printJobs,   \* f.printJobs: id -> PrintJob
    nilMaps,     \* TRUE when the three maps are nil maps (reads see them empty, writes panic)
    result,      \* what the last FSM.Apply returned
    deducted,    \* history: the job ids whose completion has reduced a filament's weight
    snapshot,    \* the fsmSnapshot that FSM.Snapshot returned and raft still holds
    sink,        \* the bytes Persist wrote to the snapshot sink
    restoreErr,  \* what the last FSM.Restore returned
    mu,          \* f.mu: the writer that holds it and the number of readers
    wpc,         \* where the goroutine that calls Apply and Restore stands
    held,        \* the entities a caller got from the read accessors
    seen,        \* the fields that caller last read from them
    committed,   \* history: the three maps when f.mu was last released by a writer
    nodeCall,    \* the last call of Node.Apply: its command and what it returned
    raftState,   \* what raft tells this node: whether it leads, and the leader's address
    fwd,         \* the last call of Transport.ForwardToLeader: its requests and what it returned
    http,        \* the write request the API of this node is handling, or its response
    served,      \* the last request that a handler of Transport.RaftHandler served
    calls,       \* history: the AddVoter and RemoveServer calls that raft has executed
    join,        \* the last call of Transport.JoinCluster or LeaveCluster
    mem,         \* s.inMemory of a Store without a path: key -> bytes
    disk,        \* the files in the directory of a Store with a path: name -> bytes
    clock,       \* time.Now().Unix()
    lastSnap,    \* history: the bytes given to the most recent StoreSnapshot
    ret          \* the last call made on both stores, and what each returned

fsmVars == <<printers, filaments, printJobs, nilMaps, result>>
snapVars == <<snapshot, sink, restoreErr>>
concVars == <<mu, wpc, held, seen, committed>>
nodeVars == <<nodeCall, raftState, fwd>>
memberVars == <<served, calls, join>>
storeVars == <<mem, disk, clock, lastSnap, ret>>
svcVars == <<http, memberVars, storeVars>>

vars == <<fsmVars, deducted, snapVars, concVars, nodeVars, svcVars>>

EmptyMap == <<>>

\* A map write that keeps no other key.
PutAlone(m, k, v) == [x \in {k} |-> v]

\* m[k] = v on a Go map.
Put(m, k, v) == [x \in (DOMAIN m) \cup {k} |-> IF x = k THEN v ELSE m[x]]

RECURSIVE SumWeights(_, _)
SumWeights(jobs, ids) ==
    IF ids = {} THEN 0
    ELSE LET j == CHOOSE x \in ids : TRUE
         IN jobs[j].PrintWeightInGrams + SumWeights(jobs, ids \ {j})

\* A capacity loop that forgets the Running jobs.
ReservingQueuedOnly(jobs, fid) ==
    {j \in DOMAIN jobs : jobs[j].FilamentID = fid /\ jobs[j].Status = "Queued"}

\* The jobs the capacity loop of AddPrintJob subtracts for filament fid.
Reserving(jobs, fid) ==
    {j \in DOMAIN jobs : jobs[j].FilamentID = fid
                          /\ (jobs[j].Status = "Queued" \/ jobs[j].Status = "Running")}

\* A loop body that forgets what it has subtracted when it meets a job of another filament
\* or a finished job.
LoopStepReset(availableWeight, job, fid) ==
    IF job.FilamentID = fid /\ (job.Status = "Queued" \/ job.Status = "Running")
    THEN availableWeight - job.PrintWeightInGrams
    ELSE 0

\* The body of the capacity loop of AddPrintJob, for one stored job.
LoopStep(availableWeight, job, fid) ==
    IF job.FilamentID = fid /\ (job.Status = "Queued" \/ job.Status = "Running")
    THEN availableWeight - job.PrintWeightInGrams
    ELSE availableWeight

\* for _, job := range f.printJobs, when the map is ranged over in this order.
RECURSIVE RangeJobs(_, _, _, _)
RangeJobs(availableWeight, jobs, fid, order) ==
    IF order = <<>> THEN availableWeight
    ELSE RangeJobs(LoopStep(availableWeight, jobs[Head(order)], fid), jobs, fid, Tail(order))

\* The orders in which a range over a map with these keys may visit them.
Orders(keys) ==
    {o \in [1..Cardinality(keys) -> keys] :
        \A i, k \in 1..Cardinality(keys) : i # k => o[i] # o[k]}

\* A capacity computation that forgets the jobs already stored.
AvailableWeightNoJobs(fils, jobs, fid) == fils[fid].RemainingWeightInGrams

\* availableWeight as AddPrintJob computes it.
AvailableWeight(fils, jobs, fid) ==
    fils[fid].RemainingWeightInGrams - SumWeights(jobs, Reserving(jobs, fid))

\* An AddPrintJob that keeps the status of the payload.
PayloadStatus(payloadStatus) == payloadStatus

\* The status AddPrintJob stores.
InitialStatus(payloadStatus) == "Queued"

\* RemainingWeightInGrams after a job of this weight is done.
Deduct(remaining, weight) ==
    IF remaining - weight < 0 THEN 0 ELSE remaining - weight

\* A lookup that finds every printer.
HasAnyPrinter(ps, id) == TRUE

\* _, ok := f.printers[id]
HasPrinter(ps, id) == id \in DOMAIN ps

Outcome(ps, fs, js, r) == [printers |-> ps, filaments |-> fs, printJobs |-> js, result |-> r]

ApplyAddPrinter(ps, fs, js, isNil, cmd) ==
    IF cmd.Printer = Nil THEN Outcome(ps, fs, js, Err("InvalidPayload"))
    ELSE IF isNil THEN Outcome(ps, fs, js, Panic)
    ELSE Outcome(Put(ps, cmd.Printer.ID, cmd.Printer), fs, js, OK)

ApplyAddFilament(ps, fs, js, isNil, cmd) ==
    IF cmd.Filament = Nil THEN Outcome(ps, fs, js, Err("InvalidPayload"))
    ELSE IF isNil THEN Outcome(ps, fs, js, Panic)
    ELSE Outcome(ps, Put(fs, cmd.Filament.ID, cmd.Filament), js, OK)

ApplyAddPrintJob(ps, fs, js, isNil, cmd) ==
    IF cmd.PrintJob = Nil THEN Outcome(ps, fs, js, Err("InvalidPayload"))
    ELSE IF ~HasPrinter(ps, cmd.PrintJob.PrinterID)
    THEN Outcome(ps, fs, js, Err("UnknownDevice"))
    ELSE IF cmd.PrintJob.FilamentID \notin DOMAIN fs
    THEN Outcome(ps, fs, js, Err("UnknownResource"))
    ELSE LET availableWeight == AvailableWeight(fs, js, cmd.PrintJob.FilamentID)
         IN IF cmd.PrintJob.PrintWeightInGrams > availableWeight
            THEN Outcome(ps, fs, js,
                         ErrNotEnough(availableWeight, cmd.PrintJob.PrintWeightInGrams))
            ELSE IF isNil THEN Outcome(ps, fs, js, Panic)
            ELSE Outcome(ps, fs,
                         Put(js, cmd.PrintJob.ID,
                             [cmd.PrintJob EXCEPT !.Status = InitialStatus(@)]),
                         OK)

\* An UpdatePrintJob that writes the new status before it checks the transition.
ApplyUpdatePrintJobWriteFirst(ps, fs, js, isNil, cmd) ==
    IF cmd.JobID \notin DOMAIN js THEN Outcome(ps, fs, js, Err("JobNotFound"))
    ELSE LET updated == [js EXCEPT ![cmd.JobID].Status = cmd.NewStatus]
         IN IF ~ValidateStatusChange(js[cmd.JobID].Status, cmd.NewStatus)
            THEN Outcome(ps, fs, updated, Err("IllegalTransition"))
            ELSE Outcome(ps, fs, updated, OK)

ApplyUpdatePrintJob(ps, fs, js, isNil, cmd) ==
    IF cmd.JobID \notin DOMAIN js THEN Outcome(ps, fs, js, Err("JobNotFound"))
    ELSE LET job == js[cmd.JobID]
             oldStatus == job.Status
             updated == [js EXCEPT ![cmd.JobID].Status = cmd.NewStatus]
         IN IF ~ValidateStatusChange(job.Status, cmd.NewStatus)
            THEN Outcome(ps, fs, js, Err("IllegalTransition"))
            ELSE IF oldStatus = "Running" /\ cmd.NewStatus = "Done"
            THEN IF job.FilamentID \notin DOMAIN fs
                 THEN Outcome(ps, fs, updated, Err("UnknownResource"))
                 ELSE Outcome(ps,
                              [fs EXCEPT ![job.FilamentID].RemainingWeightInGrams =
                                             Deduct(@, job.PrintWeightInGrams)],
                              updated, OK)
            ELSE Outcome(ps, fs, updated, OK)

\* FSM.Apply on the maps (ps, fs, js): the maps after it and what it returns.
FSMApply(ps, fs, js, isNil, data) ==
    LET u == UnmarshalCommand(data)
        cmd == u.cmd
    IN IF ~u.ok THEN Outcome(ps, fs, js, Err("Undecodable"))
       ELSE CASE cmd.Type = AddPrinter -> ApplyAddPrinter(ps, fs, js, isNil, cmd)
              [] cmd.Type = AddFilament -> ApplyAddFilament(ps, fs, js, isNil, cmd)
              [] cmd.Type = AddPrintJob -> ApplyAddPrintJob(ps, fs, js, isNil, cmd)
              [] cmd.Type = UpdatePrintJob -> ApplyUpdatePrintJob(ps, fs, js, isNil, cmd)
              [] OTHER -> Outcome(ps, fs, js, Err("InvalidCommand"))

(***************************************************************************)
(* Commands the log may carry.                                             *)
(***************************************************************************)
PrinterPayloads == {Nil} \cup {Printer(id) : id \in PrinterIDs}
FilamentPayloads ==
    {Nil} \cup {Filament(id, t, r) : id \in FilamentIDs, t \in TotalWeights,
                                     r \in RemainingWeights}
PrintJobPayloads ==
    {Nil} \cup {PrintJob(id, p, f, w, s) : id \in JobIDs, p \in PrinterIDs,
                                           f \in FilamentIDs, w \in PrintWeights,
                                           s \in PayloadStatuses}

AddPrinterCmds == {Command(AddPrinter, p, Nil, Nil, "", "") : p \in PrinterPayloads}
AddFilamentCmds == {Command(AddFilament, Nil, f, Nil, "", "") : f \in FilamentPayloads}
AddPrintJobCmds == {Command(AddPrintJob, Nil, Nil, j, "", "") : j \in PrintJobPayloads}
UpdatePrintJobCmds ==
    {Command(UpdatePrintJob, Nil, Nil, Nil, id, s) : id \in JobIDs, s \in StatusStrings}
OtherCmds == {Command("", Nil, Nil, Nil, "", ""), Command("DELETE_PRINTER", Nil, Nil, Nil, "", "")}

Commands == AddPrinterCmds \cup AddFilamentCmds \cup AddPrintJobCmds
            \cup UpdatePrintJobCmds \cup OtherCmds

(***************************************************************************)
(* Entities held outside the FSM's maps, snapshots and their wire format.  *)
(***************************************************************************)
\* A pointer to an entity, held by a snapshot or by a caller of a read accessor. It either
\* points to the object the FSM's map holds under id (alias), or to an object of its own
\* with these field values. The read accessors return pointers to the FSM's objects.
ShareEntity(id, v) == [alias |-> TRUE, id |-> id, value |-> Nil]

\* A snapshot that copies the pointer and not the struct.
CopyPointer(id, v) == [alias |-> TRUE, id |-> id, value |-> Nil]

\* printer := *v; printers[k] = &printer
CopyEntity(id, v) == [alias |-> FALSE, id |-> id, value |-> v]

\* The fields read through such a pointer while the FSM's map is m.
Deref(r, m) == IF r.alias THEN m[r.id] ELSE r.value

Contents(refs, m) == [id \in DOMAIN refs |-> Deref(refs[id], m)]

\* The FSM's map m puts new objects under the ids of replaced: a pointer to the object that
\* was there keeps the fields that object had.
Detach(refs, m, replaced) ==
    [id \in DOMAIN refs |->
        IF refs[id].alias /\ id \in replaced
        THEN [alias |-> FALSE, id |-> id, value |-> m[id]]
        ELSE refs[id]]

NoSnapshot == [none |-> TRUE]

\* The fsmSnapshot that FSM.Snapshot builds from the three maps.
FSMSnapshot(ps, fs, js) ==
    [printers |-> [id \in DOMAIN ps |-> CopyEntity(id, ps[id])],
     filaments |-> [id \in DOMAIN fs |-> CopyEntity(id, fs[id])],
     printJobs |-> [id \in DOMAIN js |-> CopyEntity(id, js[id])]]

\* The three maps a snapshot shows while the FSM's maps are ps, fs, js.
SnapshotContents(s, ps, fs, js) ==
    [printers |-> Contents(s.printers, ps),
     filaments |-> Contents(s.filaments, fs),
     printJobs |-> Contents(s.printJobs, js)]

\* The three maps of the FSM, as one value.
Maps(ps, fs, js) == [printers |-> ps, filaments |-> fs, printJobs |-> js]

\* The fields of fsmSnapshot that encoding/json writes and fills: the exported ones.
ExportedFields == {}

NoBlob == [empty |-> TRUE]
\* Bytes that are not JSON.
CorruptBlob == [corrupt |-> TRUE]

\* json.NewEncoder(sink).Encode(s): a JSON object with the exported fields of s.
EncodeSnapshot(s, ps, fs, js) ==
    [object |-> [n \in ExportedFields |-> SnapshotContents(s, ps, fs, js)[n]]]

\* json.NewDecoder(rc).Decode(&snapshot): an error, or an fsmSnapshot whose exported fields
\* are filled from the object and whose other maps are nil.
DecodeSnapshot(blob) ==
    IF blob = CorruptBlob
    THEN [ok |-> FALSE, maps |-> Maps(EmptyMap, EmptyMap, EmptyMap), isNil |-> TRUE]
    ELSE LET filled == ExportedFields \cap DOMAIN blob.object
             field(n) == IF n \in filled THEN blob.object[n] ELSE EmptyMap
         IN [ok |-> TRUE,
             maps |-> Maps(field("printers"), field("filaments"), field("printJobs")),
             isNil |-> filled = {}]

(***************************************************************************)
(* f.mu, a sync.RWMutex.                                                   *)
(***************************************************************************)
Unlocked == [writer |-> FALSE, readers |-> 0]

\* f.mu.Lock() returns
CanLock(m) == ~m.writer /\ m.readers = 0

\* A read lock that does not wait for the writer.
CanRLockAlways(m) == TRUE

\* f.mu.RLock() returns
CanRLock(m) == ~m.writer

Idle == [at |-> "idle"]
NoRefs == [printJobs |-> EmptyMap, filaments |-> EmptyMap]
NoView == [none |-> TRUE]

(***************************************************************************)
(* raft/node.go: Node.Apply, and what raft tells the node.                 *)
(***************************************************************************)
\* A Node.Apply that does not look at the response of the FSM.
NodeApplyReturnNoResponse(futureErr, response) ==
    IF futureErr # OK THEN Err("RaftApplyFailed") ELSE OK

\* What Node.Apply returns, from future.Error() and future.Response().
NodeApplyReturn(futureErr, response) ==
    IF futureErr # OK THEN Err("RaftApplyFailed")
    ELSE IF response # OK THEN Err("ApplicationFailed")
    ELSE OK

\* The errors of future.Error(): the entry was not applied.
FutureErrors == {Err("ErrNotLeader"), Err("ErrEnqueueTimeout")}

NoCall == [cmd |-> Nil, applied |-> FALSE, err |-> NoResult, tick |-> 0]

\* Addresses are strings, written as the sequence of their characters.
SelfAddr == <<"h", ":", "7", "0", "0", "0">>
\* The addresses raft may name as the leader's: a raft port of four digits, of three, of
\* two after a host that ends in a digit, and of five.
PeerAddrs ==
    {<<"h", ":", "7", "0", "0", "1">>,
     <<"h", ":", "7", "0", "0">>,
     <<"h", "2", ":", "7", "0">>,
     <<"h", ":", "1", "7", "0", "0", "1">>}

\* raft.State() == raft.Leader and raft.Leader() of this node.
RaftStates ==
    {[leader |-> TRUE, leaderAddr |-> SelfAddr], [leader |-> FALSE, leaderAddr |-> <<>>]}
    \cup {[leader |-> FALSE, leaderAddr |-> a] : a \in PeerAddrs}

NoLeader == [leader |-> FALSE, leaderAddr |-> <<>>]

(***************************************************************************)
(* raft/transport.go: Transport.ForwardToLeader.                           *)
(***************************************************************************)
HTTPPort == 8000
RaftPort == 7000
StatusOK == 200
StatusCreated == 201
StatusConflict == 409
StatusInternalServerError == 500

IsDigit(ch) == ch \in {"0", "1", "2", "3", "4", "5", "6", "7", "8", "9"}
DigitValue(ch) ==
    CASE ch = "0" -> 0 [] ch = "1" -> 1 [] ch = "2" -> 2 [] ch = "3" -> 3 [] ch = "4" -> 4
      [] ch = "5" -> 5 [] ch = "6" -> 6 [] ch = "7" -> 7 [] ch = "8" -> 8 [] ch = "9" -> 9

\* The number written by the digits at the start of chars, after acc.
RECURSIVE ScanDigits(_, _)
ScanDigits(chars, acc) ==
    IF chars = <<>> \/ ~IsDigit(Head(chars)) THEN acc
    ELSE ScanDigits(Tail(chars), acc * 10 + DigitValue(Head(chars)))

\* fmt.Sscanf(s, "%d", &n) on a string of digits, letters and colons: the number its
\* leading digits write, or an error when it does not start with a digit.
Sscanf(chars) ==
    IF chars # <<>> /\ IsDigit(Head(chars))
    THEN [ok |-> TRUE, n |-> ScanDigits(chars, 0)]
    ELSE [ok |-> FALSE, n |-> 0]

\* leaderAddr[len(leaderAddr)-4:]
LastFour(addr) == SubSeq(addr, Len(addr) - 3, Len(addr))

\* leaderHTTPPort
LeaderHTTPPort(leaderPort) == HTTPPort + (leaderPort - RaftPort)

\* http.NoBody
NoBody == [noBody |-> TRUE]

\* The request ForwardToLeader sends: it is created with a nil body, and when a body was
\* given its Body is set to http.NoBody and its Content-Type to JSON.
NewRequest(method, port, path, body) ==
    [method |-> method, host |-> "localhost", port |-> port, path |-> path,
     body |-> IF body # Nil THEN NoBody ELSE Nil,
     contentType |-> IF body # Nil THEN "application/json" ELSE ""]

Methods == {"GET", "POST"}
Paths == {"/join", "/api/v1/printers"}
\* A []byte that is not nil.
Bytes(str) == [bytes |-> str]
\* body []byte: nil, or bytes.
Bodies == {Nil, Bytes("{}")}

\* What resp.Body.Read(respBody) may do by the contract of io.Reader: fill the buffer and
\* return nil, fill it and return io.EOF with the last bytes, or return fewer bytes.
ReadOutcomes == {"full", "fullEOF", "partial"}

\* What client.Do may end with: no connection, the 5 s deadline, or a response.
NoExchange == [kind |-> "none"]
NetOutcomes ==
    {[kind |-> "refused"], [kind |-> "timeout"]}
    \cup {[kind |-> "response", status |-> st, body |-> b, read |-> r] :
              st \in {StatusOK, StatusCreated, StatusConflict, StatusInternalServerError},
              b \in {"", "ok"}, r \in ReadOutcomes}

Returned(body, err) == [body |-> body, err |-> err]

\* ForwardToLeader from client.Do on: what it returns for this outcome.
HandleResponse(net) ==
    IF net.kind = "refused" THEN Returned(Nil, Err("TransportFailure"))
    ELSE IF net.kind = "timeout" THEN Returned(Nil, Err("Timeout"))
    ELSE IF net.status # StatusOK /\ net.status # StatusCreated
    THEN Returned(Nil, Err("NonSuccessStatus"))
    ELSE IF net.body = "" THEN Returned(Nil, OK)
    ELSE CASE net.read = "full" -> Returned(Bytes(net.body), OK)
           [] net.read = "fullEOF" -> Returned(Nil, Err("EOF"))
           [] net.read = "partial" -> Returned(Bytes("o"), OK)

\* ForwardToLeader: the requests it sends, how the exchange ends, and what it returns.
ForwardToLeader(st, method, path, body, net) ==
    IF st.leader
    THEN [requests |-> <<>>, net |-> NoExchange, ret |-> Returned(Nil, OK)]
    ELSE IF st.leaderAddr = <<>>
    THEN [requests |-> <<>>, net |-> NoExchange,
          ret |-> Returned(Nil, Err("NoLeaderAvailable"))]
    ELSE LET scan == Sscanf(LastFour(st.leaderAddr))
         IN IF ~scan.ok
            THEN [requests |-> <<>>, net |-> NoExchange,
                  ret |-> Returned(Nil, Err("ParseLeaderPort"))]
            ELSE [requests |-> <<NewRequest(method, LeaderHTTPPort(scan.n), path, body)>>,
                  net |-> net, ret |-> HandleResponse(net)]

NoForward == [none |-> TRUE]

(***************************************************************************)
(* The API of a node: the router, RaftLeaderMiddleware and the handlers of *)
(* the write endpoints.                                                    *)
(***************************************************************************)
StatusBadRequest == 400
StatusNotFound == 404

\* The handler SetupRouter routes the POST that issues a command of this type to.
Endpoint(type) ==
    CASE type = AddPrinter -> "CreatePrinter"
      [] type = AddFilament -> "CreateFilament"
      [] type = AddPrintJob -> "CreatePrintJob"
      [] type = UpdatePrintJob -> "UpdatePrintJobStatus"

\* A response: its status, the "error" field of its body ("" when it has none), and the
\* requests that the middleware and the handler sent to other nodes to produce it.
Response(status, error) == [status |-> status, error |-> error, requests |-> <<>>]

\* c.JSON(409, gin.H{"error": "not the leader", "leader": ...}) and c.Abort().
MiddlewareAbort == Response(StatusConflict, "not the leader")

\* What a handler answers after Node.Apply returned err: the print job handlers answer an
\* error with 400, the printer and filament handlers with 500, all with err.Error().
HandlerResponse(endpoint, err) ==
    IF err # OK
    THEN IF endpoint \in {"CreatePrintJob", "UpdatePrintJobStatus"}
         THEN Response(StatusBadRequest, err.kind)
         ELSE Response(StatusInternalServerError, err.kind)
    ELSE IF endpoint = "UpdatePrintJobStatus" THEN Response(StatusOK, "")
    ELSE Response(StatusCreated, "")

\* UpdatePrintJobStatus when GetPrintJob does not find the job.
JobNotFoundResponse == Response(StatusNotFound, "print job not found")

NoRequest == [at |-> "idle"]
\* The request has passed the middleware and its handler runs.
InHandler(cmd) == [at |-> "handler", cmd |-> cmd]
\* The response went out. leader and leaderAddr are what raft reported when the request
\* arrived, cause is why the write did not happen ("" when it did).
Answered(cmd, st, cause, response) ==
    [at |-> "done", cmd |-> cmd, leader |-> st.leader, leaderAddr |-> st.leaderAddr,
     cause |-> cause, response |-> response]

(***************************************************************************)
(* raft/transport.go: RaftHandler, JoinCluster and LeaveCluster.           *)
(***************************************************************************)
StatusMethodNotAllowed == 405

\* The nodes that ask to join or to leave, and their raft address.
NodeIDs == {"n2"}
NodeAddr == <<"h", ":", "7", "0", "0", "2">>

\* json.Marshal(map[string]string{"node_id": ..., "node_addr": ...}) and the same with
\* "node_id" alone.
JoinBody(nodeID, nodeAddr) == [json |-> [node_id |-> nodeID, node_addr |-> nodeAddr]]
LeaveBody(nodeID) == [json |-> [node_id |-> nodeID]]

\* json.NewDecoder(r.Body).Decode(&req): a body without bytes fails with io.EOF, a JSON
\* object fills the fields whose keys it has.
DecodeMember(body) ==
    IF body = Nil \/ body = NoBody \/ "json" \notin DOMAIN body
    THEN [ok |-> FALSE, NodeID |-> "", NodeAddr |-> <<>>]
    ELSE [ok |-> TRUE, NodeID |-> JSONField(body.json, "node_id", ""),
          NodeAddr |-> JSONField(body.json, "node_addr", <<>>)]

\* The call on raft that the handler of a path makes.
MemberOp(path) == IF path = "/join" THEN "AddVoter" ELSE "RemoveServer"
MemberCall(path, req) ==
    [op |-> MemberOp(path), id |-> req.NodeID,
     addr |-> IF path = "/join" THEN req.NodeAddr ELSE <<>>]

\* What a handler answers, and the call on raft it made (Nil when none).
Served(status, call) == [status |-> status, call |-> call, requests |-> <<>>]

\* A handler that does not ask whether the node leads.
RaftHandlerNoLeaderCheck(st, method, path, body, futureErr) ==
    LET req == DecodeMember(body)
    IN IF method # "POST" THEN Served(StatusMethodNotAllowed, Nil)
       ELSE IF ~req.ok THEN Served(StatusBadRequest, Nil)
       ELSE IF futureErr # OK THEN Served(StatusInternalServerError, MemberCall(path, req))
       ELSE Served(StatusOK, MemberCall(path, req))

\* The handlers of /join and /leave: what they answer to a request, on a node in raft
\* state st, when the future of AddVoter or RemoveServer ends with futureErr.
RaftHandler(st, method, path, body, futureErr) ==
    LET req == DecodeMember(body)
    IN IF method # "POST" THEN Served(StatusMethodNotAllowed, Nil)
       ELSE IF ~st.leader THEN Served(StatusConflict, Nil)
       ELSE IF ~req.ok THEN Served(StatusBadRequest, Nil)
       ELSE IF futureErr # OK THEN Served(StatusInternalServerError, MemberCall(path, req))
       ELSE Served(StatusOK, MemberCall(path, req))

MemberPaths == {"/join", "/leave"}
\* The bodies that reach the handlers: none, and the bodies JoinCluster and LeaveCluster
\* marshal.
MemberBodies ==
    {NoBody} \cup {JoinBody(n, NodeAddr) : n \in NodeIDs} \cup {LeaveBody(n) : n \in NodeIDs}

NoServed == [none |-> TRUE]

\* The HTTP server of a node has the gin router as its Handler; RaftHandler is registered
\* on http.DefaultServeMux, which no server of the node serves. The router has no route
\* for /join or /leave: such a POST passes RaftLeaderMiddleware, which answers 409 on a
\* node that does not lead, and then gets gin's 404.
ServerAnswer(remoteLeads) ==
    [kind |-> "response", status |-> IF remoteLeads THEN StatusNotFound ELSE StatusConflict,
     body |-> "ok", read |-> "full"]

\* How the exchange with the node at the derived address may end.
MemberNetOutcomes ==
    {[kind |-> "refused"], [kind |-> "timeout"]} \cup {ServerAnswer(l) : l \in BOOLEAN}

\* JoinCluster and LeaveCluster: they marshal the body, call ForwardToLeader with POST and
\* return its error.
JoinCluster(st, nodeID, nodeAddr, net) ==
    ForwardToLeader(st, "POST", "/join", JoinBody(nodeID, nodeAddr), net)
LeaveCluster(st, nodeID, net) ==
    ForwardToLeader(st, "POST", "/leave", LeaveBody(nodeID), net)

NoJoin == [none |-> TRUE]

(***************************************************************************)
(* raft/fsm.go: Store, in its two modes. A key or file name is written as   *)
(* the sequence of its parts.                                              *)
(***************************************************************************)
MaxClock == 2

DataKey == <<"k">>
SnapshotKey == <<"snapshot">>
\* The key d/k: a path into a directory that does not exist in the store's directory.
NestedKey == <<"d", "/", "k">>
\* The key snapshot-9.
DatedKey == <<"snapshot-", "9">>
StoreKeys == {DataKey, SnapshotKey, NestedKey, DatedKey}
StoreValues == {"a", "b"}

\* strconv of a number below ten.
Itoa(n) == CHOOSE ch \in {"0", "1", "2", "3", "4", "5", "6", "7", "8", "9"} : DigitValue(ch) = n

\* fmt.Sprintf("snapshot-%d", now)
SnapshotFile(now) == <<"snapshot-", Itoa(now)>>

\* len(name) > 9 && name[:9] == "snapshot-"
IsSnapshotName(name) == Len(name) > 1 /\ name[1] = "snapshot-"

\* fmt.Sscanf(name, "snapshot-%d", &timestamp)
SnapshotTime(name) == Sscanf(Tail(name))

\* os.WriteFile creates the file in the store's directory: it fails when the name leads
\* into a directory that is not there.
CanCreate(name) == "/" \notin {name[i] : i \in DOMAIN name}

\* os.ErrNotExist, and the *PathError that os.ReadFile, os.Remove and os.WriteFile return
\* for a path that does not exist.
ErrNotExist == Err("ErrNotExist")
PathError(op) == Result("PathError", <<op, "ENOENT">>)
DecodeError == Err("JSONDecodeError")

\* What a call returns: a value and an error.
StoreResult(val, err) == [val |-> val, err |-> err]
\* A call's effect on one store: the store after it and what the call returned.
StoreEffect(store, val, err) == [store |-> store, result |-> StoreResult(val, err)]

\* delete(m, k) and os.Remove on the map of names.
Remove(m, k) == [x \in (DOMAIN m) \ {k} |-> m[x]]

\* json.NewEncoder(w).Encode of a map[string][]byte: every value in base64.
StoreJSON(m) == [json |-> [k \in DOMAIN m |-> [base64 |-> m[k]]]]
\* json.NewDecoder(r).Decode into a map[string][]byte.
DecodeStore(blob) ==
    IF blob = Garbage \/ "json" \notin DOMAIN blob THEN [ok |-> FALSE, backup |-> EmptyMap]
    ELSE [ok |-> TRUE, backup |-> [k \in DOMAIN blob.json |-> blob.json[k].base64]]

\* The Store without a path.
MemSet(m, key, val) == StoreEffect(Put(m, key, val), Nil, OK)
MemGet(m, key) ==
    IF key \in DOMAIN m THEN StoreEffect(m, Bytes(m[key]), OK)
    ELSE StoreEffect(m, Nil, ErrNotExist)
MemDelete(m, key) == StoreEffect(Remove(m, key), Nil, OK)
MemKeys(m) == StoreEffect(m, DOMAIN m, OK)
MemStoreSnapshot(m, data) == StoreEffect(Put(m, SnapshotKey, data), Nil, OK)
MemLoadSnapshot(m) ==
    IF SnapshotKey \in DOMAIN m THEN StoreEffect(m, Bytes(m[SnapshotKey]), OK)
    ELSE StoreEffect(m, Nil, ErrNotExist)
MemBackup(m) == StoreEffect(m, StoreJSON(m), OK)
MemRestore(m, blob) ==
    LET d == DecodeStore(blob)
    IN IF ~d.ok THEN {StoreEffect(m, Nil, DecodeError)}
       ELSE {StoreEffect(d.backup, Nil, OK)}

\* The Store with a path: files are the files of its directory.
DiskSet(files, key, val) ==
    IF CanCreate(key) THEN StoreEffect(Put(files, key, val), Nil, OK)
    ELSE StoreEffect(files, Nil, PathError("open"))
DiskGet(files, key) ==
    IF key \in DOMAIN files THEN StoreEffect(files, Bytes(files[key]), OK)
    ELSE StoreEffect(files, Nil, PathError("open"))
DiskDelete(files, key) ==
    IF key \in DOMAIN files THEN StoreEffect(Remove(files, key), Nil, OK)
    ELSE StoreEffect(files, Nil, PathError("remove"))
DiskKeys(files) == StoreEffect(files, DOMAIN files, OK)
DiskStoreSnapshot(files, now, data) ==
    StoreEffect(Put(files, SnapshotFile(now), data), Nil, OK)
\* The loop of LoadSnapshot: the snapshot file with the greatest timestamp above 0.
LatestSnapshot(files) ==
    LET parsed == {f \in DOMAIN files : IsSnapshotName(f) /\ SnapshotTime(f).ok
                                          /\ SnapshotTime(f).n > 0}
    IN {f \in parsed : \A g \in parsed : SnapshotTime(g).n <= SnapshotTime(f).n}
DiskLoadSnapshot(files) ==
    IF LatestSnapshot(files) = {} THEN StoreEffect(files, Nil, ErrNotExist)
    ELSE LET f == CHOOSE x \in LatestSnapshot(files) : TRUE
         IN StoreEffect(files, Bytes(files[f]), OK)
DiskBackup(files) == StoreEffect(files, StoreJSON(files), OK)
\* Restore decodes, removes every file and then writes the keys of the backup in the order
\* of a map range; it returns at the first key it cannot create, with the keys it wrote
\* before that one.
DiskRestore(files, blob) ==
    LET d == DecodeStore(blob)
        good == {k \in DOMAIN d.backup : CanCreate(k)}
    IN IF ~d.ok THEN {StoreEffect(files, Nil, DecodeError)}
       ELSE IF good = DOMAIN d.backup THEN {StoreEffect(d.backup, Nil, OK)}
       ELSE {StoreEffect([k \in written |-> d.backup[k]], Nil, PathError("open")) :
                 written \in SUBSET good}

\* The backups given to Restore besides the store's own: bytes that are not JSON, a backup
\* with one key, and a backup of a store that holds the key d/k.
RestoreSources ==
    {Garbage, StoreJSON([k \in {DataKey} |-> "a"]),
     StoreJSON([k \in {DataKey, NestedKey} |-> "b"])}

\* Stands for the backup a store has just written.
OwnBackup == [own |-> TRUE]

NoStoreCall == [op |-> "none"]
StoreCall(op, args, m, d) == [op |-> op, args |-> args, mem |-> m.result, disk |-> d.result]

(***************************************************************************)
(* Actions.                                                                *)
(***************************************************************************)
Crashed == result = Panic

\* NewFSM
Init ==
    /\ printers = EmptyMap
    /\ filaments = EmptyMap
    /\ printJobs = EmptyMap
    /\ nilMaps = FALSE
    /\ result = NoResult
    /\ deducted = {}
    /\ snapshot = NoSnapshot
    /\ sink = NoBlob
    /\ restoreErr = NoResult
    /\ mu = Unlocked
    /\ wpc = Idle
    /\ held = NoRefs
    /\ seen = NoView
    /\ committed = Maps(EmptyMap, EmptyMap, EmptyMap)
    /\ nodeCall = NoCall
    /\ raftState = NoLeader
    /\ fwd = NoForward
    /\ http = NoRequest
    /\ served = NoServed
    /\ calls = {}
    /\ join = NoJoin
    /\ mem = EmptyMap
    /\ disk = EmptyMap
    /\ clock = 1
    /\ lastSnap = Nil
    /\ ret = NoStoreCall

\* The jobs that this step of Apply moved from Running to Done.
Completed(before, after) ==
    {j \in DOMAIN before : before[j].Status = "Running" /\ after[j].Status = "Done"}

\* One call of FSM.Apply with this log data: the maps and the returned value.
FSMStep(data) ==
    /\ ~Crashed
    /\ LET o == FSMApply(printers, filaments, printJobs, nilMaps, data)
       IN /\ printers' = o.printers
          /\ filaments' = o.filaments
          /\ printJobs' = o.printJobs
          /\ result' = o.result
    /\ UNCHANGED nilMaps

Apply(data) == FSMStep(data) /\ UNCHANGED <<deducted, snapVars, concVars, nodeVars, svcVars>>

\* The same call, with the history of deductions kept.
ApplyTracked(data) ==
    /\ FSMStep(data)
    /\ deducted' = deducted \cup Completed(printJobs, printJobs')
    /\ UNCHANGED <<snapVars, concVars, nodeVars, svcVars>>

\* One action for each case of the switch on cmd.Type, and one for data that does not
\* decode.
DoAddPrinter ==
    \E c \in AddPrinterCmds :
        /\ c.Type = AddPrinter
        /\ Apply(c)

DoAddFilament ==
    \E c \in AddFilamentCmds :
        /\ c.Type = AddFilament
        /\ Apply(c)

DoAddPrintJob ==
    \E c \in AddPrintJobCmds :
        /\ c.Type = AddPrintJob
        /\ Apply(c)

DoUpdatePrintJob ==
    \E c \in UpdatePrintJobCmds :
        /\ c.Type = UpdatePrintJob
        /\ Apply(c)

DoUnknownType ==
    \E c \in OtherCmds :
        /\ c.Type \notin {AddPrinter, AddFilament, AddPrintJob, UpdatePrintJob}
        /\ Apply(c)

DoUndecodable ==
    /\ ~UnmarshalCommand(Garbage).ok
    /\ Apply(Garbage)

\* FSM.Restore: the decoder fills no field of fsmSnapshot (they are unexported), so a
\* blob that decodes leaves the three maps nil; a blob that does not decode changes nothing.
Restore(decodes) ==
    /\ ~Crashed
    /\ IF decodes
       THEN /\ printers' = EmptyMap
            /\ filaments' = EmptyMap
            /\ printJobs' = EmptyMap
            /\ nilMaps' = TRUE
       ELSE UNCHANGED <<printers, filaments, printJobs, nilMaps>>
    /\ UNCHANGED <<result, deducted, snapVars, concVars, nodeVars, svcVars>>

DoRestore == \E decodes \in BOOLEAN : Restore(decodes)

\* The process died in Apply; it starts again with NewFSM.
Restart ==
    /\ Crashed
    /\ printers' = EmptyMap
    /\ filaments' = EmptyMap
    /\ printJobs' = EmptyMap
    /\ nilMaps' = FALSE
    /\ result' = NoResult
    /\ deducted' = {}
    /\ snapshot' = NoSnapshot
    /\ restoreErr' = NoResult
    /\ mu' = Unlocked
    /\ wpc' = Idle
    /\ held' = NoRefs
    /\ seen' = NoView
    /\ committed' = Maps(EmptyMap, EmptyMap, EmptyMap)
    /\ UNCHANGED <<sink, nodeVars, svcVars>>

Next ==
    \/ DoAddPrinter
    \/ DoAddFilament
    \/ DoAddPrintJob
    \/ DoUpdatePrintJob
    \/ DoUnknownType
    \/ DoUndecodable
    \/ DoRestore
    \/ Restart

Spec == Init /\ [][Next]_vars

\* The same machine when every filament payload carries a remaining weight >= 0.
NonNegFilamentCmds ==
    {c \in AddFilamentCmds :
        c.Filament # Nil => c.Filament.RemainingWeightInGrams >= 0}

DoAddFilamentNonNeg ==
    \E c \in NonNegFilamentCmds :
        /\ c.Type = AddFilament
        /\ Apply(c)

NextNonNeg ==
    \/ DoAddPrinter
    \/ DoAddFilamentNonNeg
    \/ DoAddPrintJob
    \/ DoUpdatePrintJob
    \/ DoUnknownType
    \/ DoUndecodable
    \/ DoRestore
    \/ Restart

SpecNonNeg == Init /\ [][NextNonNeg]_vars

\* Each filament is added once, then only AddPrintJob commands (and the printer they
\* need) follow.
DoAddNewFilament ==
    \E c \in AddFilamentCmds :
        /\ c.Filament # Nil
        /\ c.Filament.ID \notin DOMAIN filaments
        /\ Apply(c)

NextSeq ==
    \/ DoAddPrinter
    \/ DoAddNewFilament
    \/ DoAddPrintJob

SpecSeq == Init /\ [][NextSeq]_vars

\* The same machine with the history variable deducted kept up to date.
DoApplyTracked ==
    \E d \in Commands \cup {Garbage} :
        /\ d \in Commands \/ d = Garbage
        /\ ApplyTracked(d)

NextTracked ==
    \/ DoApplyTracked
    \/ DoRestore
    \/ Restart

SpecTracked == Init /\ [][NextTracked]_vars

(***************************************************************************)
(* The FSM with its lock: Apply and Restore are called by one goroutine,   *)
(* Snapshot and the read accessors by others. A call that holds f.mu for   *)
(* all its reads and writes is one step unless it changes objects that     *)
(* others hold pointers to; then every write is a step.                    *)
(***************************************************************************)
\* The commands of this machine: one printer, one filament, one job and its updates.
SmallCmds ==
    {Command(AddPrinter, Printer("p1"), Nil, Nil, "", ""),
     Command(AddFilament, Nil, Filament("f1", MaxWeight, MaxWeight), Nil, "", ""),
     Command(AddPrintJob, Nil, Nil, PrintJob("j1", "p1", "f1", MaxWeight, "Queued"), "", "")}
    \cup {Command(UpdatePrintJob, Nil, Nil, Nil, "j1", s) : s \in ValidStatuses}

\* The ids under which an Apply with outcome o has put a new object into each map.
Replaced(data, o) ==
    LET u == UnmarshalCommand(data)
        stored(type) == u.ok /\ o.result = OK /\ u.cmd.Type = type
    IN [printers |-> IF stored(AddPrinter) THEN {u.cmd.Printer.ID} ELSE {},
        filaments |-> IF stored(AddFilament) THEN {u.cmd.Filament.ID} ELSE {},
        printJobs |-> IF stored(AddPrintJob) THEN {u.cmd.PrintJob.ID} ELSE {}]

\* The pointers held outside the FSM after its maps put new objects under the ids of r.
DetachHeld(r) ==
    [printJobs |-> Detach(held.printJobs, printJobs, r.printJobs),
     filaments |-> Detach(held.filaments, filaments, r.filaments)]

DetachSnapshot(r) ==
    IF snapshot = NoSnapshot THEN snapshot
    ELSE [printers |-> Detach(snapshot.printers, printers, r.printers),
          filaments |-> Detach(snapshot.filaments, filaments, r.filaments),
          printJobs |-> Detach(snapshot.printJobs, printJobs, r.printJobs)]

NoneReplaced == [printers |-> {}, filaments |-> {}, printJobs |-> {}]

\* An UpdatePrintJob that takes a stored job from Running to Done: it writes two objects.
IsCompletion(data) ==
    LET u == UnmarshalCommand(data)
    IN /\ u.ok
       /\ u.cmd.Type = UpdatePrintJob
       /\ u.cmd.JobID \in DOMAIN printJobs
       /\ ValidateStatusChange(printJobs[u.cmd.JobID].Status, u.cmd.NewStatus)
       /\ printJobs[u.cmd.JobID].Status = "Running"
       /\ u.cmd.NewStatus = "Done"

\* FSM.Apply of any other command: Lock, the whole body, Unlock.
WApply(data) ==
    /\ wpc = Idle
    /\ CanLock(mu)
    /\ ~IsCompletion(data)
    /\ FSMStep(data)
    /\ LET r == Replaced(data, FSMApply(printers, filaments, printJobs, nilMaps, data))
       IN /\ held' = DetachHeld(r)
          /\ snapshot' = DetachSnapshot(r)
    /\ committed' = Maps(printers', filaments', printJobs')
    /\ UNCHANGED <<deducted, sink, restoreErr, mu, wpc, seen, nodeVars, svcVars>>

\* FSM.Apply of a completion, up to job.Status = cmd.NewStatus.
WWriteStatus(data) ==
    /\ wpc = Idle
    /\ CanLock(mu)
    /\ ~Crashed
    /\ IsCompletion(data)
    /\ mu' = [mu EXCEPT !.writer = TRUE]
    /\ printJobs' = [printJobs EXCEPT ![UnmarshalCommand(data).cmd.JobID].Status =
                                          UnmarshalCommand(data).cmd.NewStatus]
    /\ wpc' = [at |-> "deduct", data |-> data]
    /\ UNCHANGED <<printers, filaments, nilMaps, result, deducted, snapVars,
                   held, seen, committed, nodeVars, svcVars>>

\* The rest of that Apply: the filament's weight, return nil, the deferred Unlock.
WDeduct ==
    /\ wpc.at = "deduct"
    /\ LET job == printJobs[UnmarshalCommand(wpc.data).cmd.JobID]
       IN IF job.FilamentID \notin DOMAIN filaments
          THEN /\ filaments' = filaments
               /\ result' = Err("UnknownResource")
          ELSE /\ filaments' = [filaments EXCEPT ![job.FilamentID].RemainingWeightInGrams =
                                                    Deduct(@, job.PrintWeightInGrams)]
               /\ result' = OK
    /\ mu' = [mu EXCEPT !.writer = FALSE]
    /\ wpc' = Idle
    /\ committed' = Maps(printers, filaments', printJobs)
    /\ UNCHANGED <<printers, printJobs, nilMaps, deducted, snapVars, held, seen, nodeVars, svcVars>>

DoWApply == \E c \in SmallCmds : WApply(c)
DoWWriteStatus == \E c \in SmallCmds : WWriteStatus(c)

\* The bytes raft may hand to Restore: what Persist wrote, or bytes that are not JSON.
RestoreBlobs == {CorruptBlob} \cup (IF sink = NoBlob THEN {} ELSE {sink})

\* FSM.Restore when the bytes do not decode: it returns the error.
WRestoreFails(blob) ==
    /\ wpc = Idle
    /\ ~Crashed
    /\ ~DecodeSnapshot(blob).ok
    /\ restoreErr' = Err("Undecodable")
    /\ UNCHANGED <<fsmVars, deducted, snapshot, sink, concVars, nodeVars, svcVars>>

\* FSM.Restore up to the decoded fsmSnapshot.
WRestoreDecoded(blob) ==
    /\ wpc = Idle
    /\ ~Crashed
    /\ DecodeSnapshot(blob).ok
    /\ wpc' = [at |-> "restorePrinters", decoded |-> DecodeSnapshot(blob)]
    /\ UNCHANGED <<fsmVars, deducted, snapVars, mu, held, seen, committed, nodeVars, svcVars>>

\* f.mu.Lock(); f.printers = snapshot.printers
WRestorePrinters ==
    /\ wpc.at = "restorePrinters"
    /\ CanLock(mu)
    /\ mu' = [mu EXCEPT !.writer = TRUE]
    /\ printers' = wpc.decoded.maps.printers
    /\ snapshot' = DetachSnapshot([NoneReplaced EXCEPT !.printers = DOMAIN printers])
    /\ wpc' = [wpc EXCEPT !.at = "restoreFilaments"]
    /\ UNCHANGED <<filaments, printJobs, nilMaps, result, deducted, sink, restoreErr,
                   held, seen, committed, nodeVars, svcVars>>

\* f.filaments = snapshot.filaments
WRestoreFilaments ==
    /\ wpc.at = "restoreFilaments"
    /\ filaments' = wpc.decoded.maps.filaments
    /\ LET r == [NoneReplaced EXCEPT !.filaments = DOMAIN filaments]
       IN /\ snapshot' = DetachSnapshot(r)
          /\ held' = DetachHeld(r)
    /\ wpc' = [wpc EXCEPT !.at = "restorePrintJobs"]
    /\ UNCHANGED <<printers, printJobs, nilMaps, result, deducted, sink, restoreErr,
                   mu, seen, committed, nodeVars, svcVars>>

\* f.printJobs = snapshot.printJobs; return nil; the deferred Unlock.
WRestorePrintJobs ==
    /\ wpc.at = "restorePrintJobs"
    /\ printJobs' = wpc.decoded.maps.printJobs
    /\ nilMaps' = wpc.decoded.isNil
    /\ LET r == [NoneReplaced EXCEPT !.printJobs = DOMAIN printJobs]
       IN /\ snapshot' = DetachSnapshot(r)
          /\ held' = DetachHeld(r)
    /\ restoreErr' = OK
    /\ mu' = [mu EXCEPT !.writer = FALSE]
    /\ wpc' = Idle
    /\ committed' = Maps(printers, filaments, printJobs')
    /\ UNCHANGED <<printers, filaments, result, deducted, sink, seen, nodeVars, svcVars>>

DoWRestoreFails == \E blob \in RestoreBlobs : WRestoreFails(blob)
DoWRestoreDecoded == \E blob \in RestoreBlobs : WRestoreDecoded(blob)

\* FSM.Snapshot: f.mu.RLock()
SnapshotRLock ==
    /\ ~Crashed
    /\ mu.readers = 0
    /\ CanRLock(mu)
    /\ mu' = [mu EXCEPT !.readers = 1]
    /\ UNCHANGED <<fsmVars, deducted, snapVars, wpc, held, seen, committed, nodeVars, svcVars>>

\* FSM.Snapshot: the copies of the three maps, the deferred RUnlock.
SnapshotCopy ==
    /\ mu.readers = 1
    /\ snapshot' = FSMSnapshot(printers, filaments, printJobs)
    /\ mu' = [mu EXCEPT !.readers = 0]
    /\ UNCHANGED <<fsmVars, deducted, sink, restoreErr, wpc, held, seen, committed, nodeVars, svcVars>>

\* fsmSnapshot.Persist, called by raft without f.mu.
Persist ==
    /\ ~Crashed
    /\ snapshot # NoSnapshot
    /\ sink' = EncodeSnapshot(snapshot, printers, filaments, printJobs)
    /\ UNCHANGED <<fsmVars, deducted, snapshot, restoreErr, concVars, nodeVars, svcVars>>

\* fsmSnapshot.Release: raft drops the snapshot.
Release ==
    /\ ~Crashed
    /\ snapshot # NoSnapshot
    /\ snapshot' = NoSnapshot
    /\ UNCHANGED <<fsmVars, deducted, sink, restoreErr, concVars, nodeVars, svcVars>>

NextConc ==
    \/ DoWApply
    \/ DoWWriteStatus
    \/ WDeduct
    \/ DoWRestoreFails
    \/ DoWRestoreDecoded
    \/ WRestorePrinters
    \/ WRestoreFilaments
    \/ WRestorePrintJobs
    \/ SnapshotRLock
    \/ SnapshotCopy
    \/ Persist
    \/ Release
    \/ Restart

SpecConc == Init /\ [][NextConc]_vars

(***************************************************************************)
(* Callers of the read accessors: an HTTP handler gets pointers from an    *)
(* accessor under the read lock and reads their fields when it writes the  *)
(* response, after the accessor has returned.                              *)
(***************************************************************************)
\* FSM.GetPrintJobs, FSM.GetPrintJobsByStatus, FSM.GetPrintJob
GetPrintJobs ==
    /\ ~Crashed
    /\ CanRLock(mu)
    /\ held' = [held EXCEPT !.printJobs =
                    [id \in DOMAIN printJobs |-> ShareEntity(id, printJobs[id])]]
    /\ UNCHANGED <<fsmVars, deducted, snapVars, mu, wpc, seen, committed, nodeVars, svcVars>>

\* FSM.GetFilaments
GetFilaments ==
    /\ ~Crashed
    /\ CanRLock(mu)
    /\ held' = [held EXCEPT !.filaments =
                    [id \in DOMAIN filaments |-> ShareEntity(id, filaments[id])]]
    /\ UNCHANGED <<fsmVars, deducted, snapVars, mu, wpc, seen, committed, nodeVars, svcVars>>

\* The caller reads the fields of the entities it holds.
ReadFields ==
    /\ held # NoRefs
    /\ seen' = [printJobs |-> Contents(held.printJobs, printJobs),
                filaments |-> Contents(held.filaments, filaments)]
    /\ UNCHANGED <<fsmVars, deducted, snapVars, mu, wpc, held, committed, nodeVars, svcVars>>

\* The caller is done with them.
Forget ==
    /\ held # NoRefs
    /\ held' = NoRefs
    /\ seen' = NoView
    /\ UNCHANGED <<fsmVars, deducted, snapVars, mu, wpc, committed, nodeVars, svcVars>>

NextRead ==
    \/ DoWApply
    \/ DoWWriteStatus
    \/ WDeduct
    \/ GetPrintJobs
    \/ GetFilaments
    \/ ReadFields
    \/ Forget

SpecRead == Init /\ [][NextRead]_vars

(***************************************************************************)
(* The node: commands reach the FSM through Node.Apply on the leader, and  *)
(* through replication on a follower.                                      *)
(***************************************************************************)
\* An election ends: raft reports another state.
RaftStateChange ==
    \E st \in RaftStates :
        /\ st # raftState
        /\ raftState' = st
        /\ UNCHANGED <<fsmVars, deducted, snapVars, concVars, nodeCall, fwd, svcVars>>

\* Node.Apply when raft commits the entry: the FSM of this node has applied it when
\* future.Error() returns nil, and future.Response() is what FSM.Apply returned.
NodeApplyCommittedCall(cmd) ==
    /\ raftState.leader
    /\ FSMStep(Marshal(cmd))
    /\ nodeCall' = [cmd |-> cmd, applied |-> TRUE,
                    err |-> IF result' = Panic THEN NoResult
                            ELSE NodeApplyReturn(OK, result'),
                    tick |-> 1 - nodeCall.tick]
    /\ UNCHANGED <<deducted, snapVars, concVars, raftState, fwd>>

NodeApplyCommitted(cmd) == NodeApplyCommittedCall(cmd) /\ UNCHANGED svcVars

\* Node.Apply when future.Error() is an error.
NodeApplyFailsCall(cmd, futureErr) ==
    /\ ~Crashed
    /\ futureErr = Err("ErrNotLeader") => ~raftState.leader
    /\ nodeCall' = [cmd |-> cmd, applied |-> FALSE,
                    err |-> NodeApplyReturn(futureErr, NoResult),
                    tick |-> 1 - nodeCall.tick]
    /\ UNCHANGED <<fsmVars, deducted, snapVars, concVars, raftState, fwd>>

NodeApplyFails(cmd, futureErr) == NodeApplyFailsCall(cmd, futureErr) /\ UNCHANGED svcVars

\* A follower applies an entry that the leader replicated.
Replicated(cmd) ==
    /\ ~raftState.leader
    /\ raftState.leaderAddr # <<>>
    /\ Apply(Marshal(cmd))

DoNodeApplyCommitted == \E c \in SmallCmds : NodeApplyCommitted(c)
DoNodeApplyFails == \E c \in SmallCmds : \E e \in FutureErrors : NodeApplyFails(c, e)
DoReplicated == \E c \in SmallCmds : Replicated(c)

NextNode ==
    \/ RaftStateChange
    \/ DoNodeApplyCommitted
    \/ DoNodeApplyFails
    \/ DoReplicated

SpecNode == Init /\ [][NextNode]_vars

(***************************************************************************)
(* The API: a write request passes RaftLeaderMiddleware, then its handler  *)
(* calls Node.Apply and answers.                                           *)
(***************************************************************************)
\* RaftLeaderMiddleware on a node that does not lead: it answers 409 and aborts.
MiddlewareAborts(cmd) ==
    /\ http.at # "handler"
    /\ ~raftState.leader
    /\ http' = Answered(cmd, raftState, "notLeader", MiddlewareAbort)
    /\ UNCHANGED <<fsmVars, deducted, snapVars, concVars, nodeVars, memberVars, storeVars>>

\* RaftLeaderMiddleware on the leader: c.Next() runs the handler.
MiddlewareNext(cmd) ==
    /\ http.at # "handler"
    /\ raftState.leader
    /\ http' = InHandler(cmd)
    /\ UNCHANGED <<fsmVars, deducted, snapVars, concVars, nodeVars, memberVars, storeVars>>

\* UpdatePrintJobStatus answers 404 when the job is not in the FSM.
HandlerJobNotFound ==
    /\ http.at = "handler"
    /\ http.cmd.Type = UpdatePrintJob
    /\ http.cmd.JobID \notin DOMAIN printJobs
    /\ http' = Answered(http.cmd, [leader |-> TRUE, leaderAddr |-> SelfAddr], "domain",
                        JobNotFoundResponse)
    /\ UNCHANGED <<fsmVars, deducted, snapVars, concVars, nodeVars, memberVars, storeVars>>

\* The handler's Node.Apply is committed and applied: it answers with what the FSM said.
HandlerApplied ==
    /\ http.at = "handler"
    /\ http.cmd.Type = UpdatePrintJob => http.cmd.JobID \in DOMAIN printJobs
    /\ NodeApplyCommittedCall(http.cmd)
    /\ http' = IF result' = Panic THEN NoRequest
               ELSE Answered(http.cmd, [leader |-> TRUE, leaderAddr |-> SelfAddr],
                             IF nodeCall'.err = OK THEN "" ELSE "domain",
                             HandlerResponse(Endpoint(http.cmd.Type), nodeCall'.err))
    /\ UNCHANGED <<memberVars, storeVars>>

\* The handler's Node.Apply fails in raft: the node lost its leadership after the
\* middleware ran, or the entry was not enqueued in time.
HandlerApplyFails(futureErr) ==
    /\ http.at = "handler"
    /\ http.cmd.Type = UpdatePrintJob => http.cmd.JobID \in DOMAIN printJobs
    /\ NodeApplyFailsCall(http.cmd, futureErr)
    /\ http' = Answered(http.cmd, [leader |-> TRUE, leaderAddr |-> SelfAddr], "commit",
                        HandlerResponse(Endpoint(http.cmd.Type), nodeCall'.err))
    /\ UNCHANGED <<memberVars, storeVars>>

DoMiddlewareAborts == \E c \in SmallCmds : MiddlewareAborts(c)
DoMiddlewareNext == \E c \in SmallCmds : MiddlewareNext(c)
DoHandlerApplyFails == \E e \in FutureErrors : HandlerApplyFails(e)

NextAPI ==
    \/ RaftStateChange
    \/ DoMiddlewareAborts
    \/ DoMiddlewareNext
    \/ HandlerJobNotFound
    \/ HandlerApplied
    \/ DoHandlerApplyFails

SpecAPI == Init /\ [][NextAPI]_vars

(***************************************************************************)
(* Membership: requests to the handlers of RaftHandler, and calls of       *)
(* JoinCluster and LeaveCluster on this node.                              *)
(***************************************************************************)
\* A handler of RaftHandler serves a request. A call whose future ends without error has
\* been executed by raft.
ServeMember(method, path, body, futureErr) ==
    LET r == RaftHandler(raftState, method, path, body, futureErr)
    IN /\ served' = [leader |-> raftState.leader, method |-> method, path |-> path,
                     body |-> body, status |-> r.status, call |-> r.call,
                     requests |-> r.requests,
                     tick |-> IF served = NoServed THEN 0 ELSE 1 - served.tick]
       /\ calls' = IF r.status = StatusOK THEN calls \cup {r.call} ELSE calls
       /\ UNCHANGED <<fsmVars, deducted, snapVars, concVars, nodeVars, http, join, storeVars>>

DoServeMember ==
    \E method \in Methods, path \in MemberPaths, body \in MemberBodies,
       futureErr \in {OK} \cup FutureErrors :
        ServeMember(method, path, body, futureErr)

\* This node calls JoinCluster.
DoJoinCluster ==
    \E n \in NodeIDs, net \in MemberNetOutcomes :
        LET f == JoinCluster(raftState, n, NodeAddr, net)
        IN /\ join' = [op |-> "AddVoter", id |-> n, addr |-> NodeAddr,
                       leader |-> raftState.leader, requests |-> f.requests,
                       err |-> f.ret.err]
           /\ UNCHANGED <<fsmVars, deducted, snapVars, concVars, nodeVars, http, served,
                          calls, storeVars>>

\* This node calls LeaveCluster.
DoLeaveCluster ==
    \E n \in NodeIDs, net \in MemberNetOutcomes :
        LET f == LeaveCluster(raftState, n, net)
        IN /\ join' = [op |-> "RemoveServer", id |-> n, addr |-> <<>>,
                       leader |-> raftState.leader, requests |-> f.requests,
                       err |-> f.ret.err]
           /\ UNCHANGED <<fsmVars, deducted, snapVars, concVars, nodeVars, http, served,
                          calls, storeVars>>

NextMember ==
    \/ RaftStateChange
    \/ DoServeMember
    \/ DoJoinCluster
    \/ DoLeaveCluster

SpecMember == Init /\ [][NextMember]_vars

(***************************************************************************)
(* The store: the same call made on a Store without a path and on a Store  *)
(* with a path.                                                            *)
(***************************************************************************)
\* One call on both stores, with its effect on each.
StoreStep(op, args, m, d) ==
    /\ mem' = m.store
    /\ disk' = d.store
    /\ ret' = StoreCall(op, args, m, d)
    /\ UNCHANGED <<fsmVars, deducted, snapVars, concVars, nodeVars, http, memberVars, clock>>

StoreSet ==
    \E key \in StoreKeys, val \in StoreValues :
        /\ StoreStep("Set", <<key, val>>, MemSet(mem, key, val), DiskSet(disk, key, val))
        /\ UNCHANGED lastSnap

StoreGet ==
    \E key \in StoreKeys :
        /\ StoreStep("Get", <<key>>, MemGet(mem, key), DiskGet(disk, key))
        /\ UNCHANGED lastSnap

StoreDelete ==
    \E key \in StoreKeys :
        /\ StoreStep("Delete", <<key>>, MemDelete(mem, key), DiskDelete(disk, key))
        /\ UNCHANGED lastSnap

Keys ==
    /\ StoreStep("Keys", <<>>, MemKeys(mem), DiskKeys(disk))
    /\ UNCHANGED lastSnap

StoreSnapshot ==
    \E data \in StoreValues :
        /\ StoreStep("StoreSnapshot", <<data>>, MemStoreSnapshot(mem, data),
                     DiskStoreSnapshot(disk, clock, data))
        /\ lastSnap' = Bytes(data)

LoadSnapshot ==
    /\ StoreStep("LoadSnapshot", <<>>, MemLoadSnapshot(mem), DiskLoadSnapshot(disk))
    /\ UNCHANGED lastSnap

Backup ==
    /\ StoreStep("Backup", <<>>, MemBackup(mem), DiskBackup(disk))
    /\ UNCHANGED lastSnap

\* Restore from a backup that is given to both stores.
StoreRestore ==
    \E blob \in RestoreSources :
        \E m \in MemRestore(mem, blob), d \in DiskRestore(disk, blob) :
            /\ StoreStep("Restore", <<blob>>, m, d)
            /\ UNCHANGED lastSnap

\* Restore(Backup()): each store restores the backup it has just written.
RestoreOwnBackup ==
    /\ ret.op = "Backup"
    /\ \E m \in MemRestore(mem, ret.mem.val), d \in DiskRestore(disk, ret.disk.val) :
           StoreStep("Restore", <<OwnBackup>>, m, d)
    /\ UNCHANGED lastSnap

\* A second passes.
Tick ==
    /\ clock < MaxClock
    /\ clock' = clock + 1
    /\ UNCHANGED <<fsmVars, deducted, snapVars, concVars, nodeVars, http, memberVars,
                   mem, disk, lastSnap, ret>>

NextStore ==
    \/ StoreSet
    \/ StoreGet
    \/ StoreDelete
    \/ Keys
    \/ StoreSnapshot
    \/ LoadSnapshot
    \/ Backup
    \/ StoreRestore
    \/ RestoreOwnBackup
    \/ Tick

SpecStore == Init /\ [][NextStore]_vars

\* The calls that write, with StoreSnapshot and LoadSnapshot.
NextSnap ==
    \/ StoreSet
    \/ StoreDelete
    \/ StoreSnapshot
    \/ LoadSnapshot
    \/ Tick

SpecSnap == Init /\ [][NextSnap]_vars

(***************************************************************************)
(* The transport: calls of ForwardToLeader in the states raft reports.     *)
(***************************************************************************)
DoForwardToLeader ==
    \E method \in Methods, path \in Paths, body \in Bodies, net \in NetOutcomes :
        LET f == ForwardToLeader(raftState, method, path, body, net)
        IN /\ fwd' = [leader |-> raftState.leader, leaderAddr |-> raftState.leaderAddr,
                      method |-> method, path |-> path, body |-> body,
                      requests |-> f.requests, net |-> f.net, ret |-> f.ret]
           /\ UNCHANGED <<fsmVars, deducted, snapVars, concVars, nodeCall, raftState, svcVars>>

NextForward ==
    \/ RaftStateChange
    \/ DoForwardToLeader

SpecForward == Init /\ [][NextForward]_vars

(***************************************************************************)
(* Properties.                                                             *)
(***************************************************************************)
\* What FSM.Apply would do with this log data in the current state.
After(data) == FSMApply(printers, filaments, printJobs, nilMaps, data)

\* A step of FSM.Apply: Restore is the only step that changes nilMaps, and Restart the
\* only one taken after a panic.
CommandStep == ~Crashed /\ nilMaps' = nilMaps

IsReserving(j) == printJobs[j].Status \in {"Queued", "Running"}

\* The weight requested by the stored jobs of ids that are Queued or Running on filament fid.
RECURSIVE ReservedWeight(_, _)
ReservedWeight(fid, ids) ==
    IF ids = {} THEN 0
    ELSE LET j == CHOOSE x \in ids : TRUE
             w == IF j \in DOMAIN printJobs /\ printJobs[j].FilamentID = fid /\ IsReserving(j)
                  THEN printJobs[j].PrintWeightInGrams ELSE 0
         IN w + ReservedWeight(fid, ids \ {j})

\* The AddPrintJob commands whose printer and filament both exist.
AdmissibleJobCmds ==
    {c \in AddPrintJobCmds :
        /\ c.PrintJob # Nil
        /\ c.PrintJob.PrinterID \in DOMAIN printers
        /\ c.PrintJob.FilamentID \in DOMAIN filaments}

\* C1: an AddPrintJob whose printer and filament exist succeeds if and only if its weight is
\* at most the filament's remaining weight minus the weights of the stored jobs on that
\* filament that are Queued or Running; otherwise it fails with InsufficientCapacity (the
\* error carries the available and the required amount) and the job map is unchanged.
C1_AdmissionRule ==
    \A c \in AdmissibleJobCmds :
        LET job == c.PrintJob
            available == filaments[job.FilamentID].RemainingWeightInGrams
                         - ReservedWeight(job.FilamentID, JobIDs)
            o == After(c)
        IN IF job.PrintWeightInGrams <= available
           THEN o.result = OK /\ job.ID \in DOMAIN o.printJobs
           ELSE /\ o.result = ErrNotEnough(available, job.PrintWeightInGrams)
                /\ o.printJobs = printJobs

\* C1 witness: a job was refused for lack of filament although the filament had weight
\* left, because stored jobs reserve part of it.
C1_Witness ==
    /\ result.kind = "InsufficientCapacity"
    /\ \E f \in DOMAIN filaments :
          /\ ReservedWeight(f, JobIDs) > 0
          /\ result.args[1] = filaments[f].RemainingWeightInGrams - ReservedWeight(f, JobIDs)
          /\ result.args[1] > 0

\* C3: every stored job names a stored printer and a stored filament, and an AddPrintJob
\* whose printer (filament) is missing fails with UnknownDevice (UnknownResource) and
\* inserts nothing.
C3_ReferentialIntegrity ==
    /\ \A j \in DOMAIN printJobs :
          /\ printJobs[j].PrinterID \in DOMAIN printers
          /\ printJobs[j].FilamentID \in DOMAIN filaments
    /\ \A c \in AddPrintJobCmds :
          c.PrintJob # Nil =>
             LET o == After(c)
             IN /\ c.PrintJob.PrinterID \notin DOMAIN printers =>
                      o.result = Err("UnknownDevice") /\ o.printJobs = printJobs
                /\ (c.PrintJob.PrinterID \in DOMAIN printers
                    /\ c.PrintJob.FilamentID \notin DOMAIN filaments) =>
                      o.result = Err("UnknownResource") /\ o.printJobs = printJobs

\* C3 witness: jobs are stored and an AddPrintJob naming a missing filament was refused.
C3_Witness ==
    /\ result = Err("UnknownResource")
    /\ DOMAIN printJobs # {}
    /\ DOMAIN filaments # FilamentIDs

\* The transitions of the status machine.
LegalTransitions ==
    {<<"Queued", "Running">>, <<"Queued", "Canceled">>,
     <<"Running", "Done">>, <<"Running", "Canceled">>}

\* C4: an UpdatePrintJob on a stored job succeeds, and stores the new status, exactly when
\* (current, new) is a legal transition; for every other pair it fails with
\* IllegalTransition and the job map is unchanged.
C4_TransitionClosure ==
    \A j \in DOMAIN printJobs :
        \A s \in StatusStrings :
            LET o == After(Command(UpdatePrintJob, Nil, Nil, Nil, j, s))
            IN IF <<printJobs[j].Status, s>> \in LegalTransitions
               THEN o.result = OK /\ o.printJobs[j].Status = s
               ELSE o.result = Err("IllegalTransition") /\ o.printJobs = printJobs

\* C4 witness: a job has moved to Running and a later update of some job was refused.
C4_Witness ==
    /\ result = Err("IllegalTransition")
    /\ \E j \in DOMAIN printJobs : printJobs[j].Status = "Running"
    /\ \E j \in DOMAIN printJobs : printJobs[j].Status = "Done"

\* C2: for every filament, the weight requested by its Queued and Running jobs is at most
\* its remaining weight.
C2_NoDoubleBooking ==
    \A f \in DOMAIN filaments :
        ReservedWeight(f, JobIDs) <= filaments[f].RemainingWeightInGrams

IsTerminal(status) == status \in {"Done", "Canceled"}

\* C5: once a stored job is Done or Canceled, no applied command changes the status stored
\* under its id.
C5_TerminalIsPermanent ==
    [][CommandStep =>
          \A j \in DOMAIN printJobs :
              IsTerminal(printJobs[j].Status) =>
                  j \in DOMAIN printJobs' /\ printJobs'[j].Status = printJobs[j].Status]_vars

\* C6: a step that moves a job from Running to Done sets its filament's remaining weight to
\* max(0, remaining - weight), and no job id is deducted twice.
C6_DeductedOnce ==
    [][CommandStep =>
          \A j \in Completed(printJobs, printJobs') :
              LET f == printJobs[j].FilamentID
                  left == filaments[f].RemainingWeightInGrams - printJobs[j].PrintWeightInGrams
              IN /\ filaments'[f].RemainingWeightInGrams = IF left > 0 THEN left ELSE 0
                 /\ j \notin deducted]_vars

\* C7: no stored filament has a negative remaining weight.
C7_RemainingNonNegative ==
    \A f \in DOMAIN filaments : filaments[f].RemainingWeightInGrams >= 0

\* C8: an applied command changes the remaining weight of a stored filament only when it
\* moves one of that filament's jobs from Running to Done.
C8_RemainingFrame ==
    [][CommandStep =>
          \A f \in DOMAIN filaments :
              (\A j \in Completed(printJobs, printJobs') : printJobs[j].FilamentID # f) =>
                  /\ f \in DOMAIN filaments'
                  /\ filaments'[f].RemainingWeightInGrams
                        = filaments[f].RemainingWeightInGrams]_vars

\* The weight requested by all the stored jobs of ids on filament fid.
RECURSIVE StoredWeight(_, _)
StoredWeight(fid, ids) ==
    IF ids = {} THEN 0
    ELSE LET j == CHOOSE x \in ids : TRUE
             w == IF j \in DOMAIN printJobs /\ printJobs[j].FilamentID = fid
                  THEN printJobs[j].PrintWeightInGrams ELSE 0
         IN w + StoredWeight(fid, ids \ {j})

\* C9: when each filament is added once and only AddPrintJob commands follow, every stored
\* job is Queued; an AddPrintJob whose weight exceeds the filament's remaining weight minus
\* the weights already accepted on it fails with InsufficientCapacity and changes no job;
\* and an accepted one leaves the jobs accepted earlier under other ids as they were.
C9_OverbookingRejected ==
    /\ \A j \in DOMAIN printJobs : printJobs[j].Status = "Queued"
    /\ \A c \in AdmissibleJobCmds :
          LET job == c.PrintJob
              available == filaments[job.FilamentID].RemainingWeightInGrams
                           - StoredWeight(job.FilamentID, JobIDs)
              o == After(c)
          IN /\ job.PrintWeightInGrams > available =>
                   o.result.kind = "InsufficientCapacity" /\ o.printJobs = printJobs
             /\ \A j \in DOMAIN printJobs :
                   /\ j \in DOMAIN o.printJobs
                   /\ o.printJobs[j].Status = "Queued"
                   /\ j # job.ID => o.printJobs[j] = printJobs[j]

\* C9 witness: two jobs were accepted on one filament, both are Queued, and a further job
\* on it was refused for lack of filament.
C9_Witness ==
    /\ result.kind = "InsufficientCapacity"
    /\ \E f \in DOMAIN filaments :
          /\ result.args[1] = filaments[f].RemainingWeightInGrams - StoredWeight(f, JobIDs)
          /\ result.args[1] < result.args[2]
          /\ \A j \in JobIDs : j \in DOMAIN printJobs /\ printJobs[j].FilamentID = f
    /\ \A j \in DOMAIN printJobs : printJobs[j].Status = "Queued"

\* C10: an AddPrintJob that succeeds stores the payload with status Queued, whatever status
\* the payload carried.
C10_StoredQueued ==
    \A c \in AddPrintJobCmds :
        c.PrintJob # Nil =>
            LET o == After(c)
            IN o.result = OK =>
                  /\ c.PrintJob.ID \in DOMAIN o.printJobs
                  /\ o.printJobs[c.PrintJob.ID] = [c.PrintJob EXCEPT !.Status = "Queued"]

\* C10 witness: a job was just stored, and it is a payload that carried status Done, stored
\* as Queued.
C10_Witness ==
    /\ result = OK
    /\ \E c \in AddPrintJobCmds :
          /\ c.PrintJob # Nil
          /\ c.PrintJob.Status = "Done"
          /\ c.PrintJob.ID \in DOMAIN printJobs
          /\ printJobs[c.PrintJob.ID] = [c.PrintJob EXCEPT !.Status = "Queued"]

\* The three maps of the FSM now.
CurrentMaps == Maps(printers, filaments, printJobs)

\* The three maps the held snapshot shows now.
HeldSnapshot == SnapshotContents(snapshot, printers, filaments, printJobs)

\* The step that ends a Restore that decoded its bytes.
RestoreReturns == wpc.at = "restorePrintJobs" /\ wpc' = Idle

\* C11: when Restore is given the bytes that Persist wrote for a snapshot, the three maps
\* of the FSM after it equal, by content, the maps of that snapshot.
C11_SnapshotRoundTrip ==
    [][(/\ RestoreReturns
        /\ snapshot # NoSnapshot
        /\ sink = EncodeSnapshot(snapshot, printers, filaments, printJobs)
        /\ wpc.decoded = DecodeSnapshot(sink))
       => Maps(printers', filaments', printJobs') = HeldSnapshot]_vars

\* The step of Snapshot that copies the maps and returns.
SnapshotReturns == mu.readers = 1 /\ mu'.readers = 0

\* Restore has replaced some of the three maps and not yet all of them.
RestoreInProgress == wpc.at \in {"restoreFilaments", "restorePrintJobs"}

\* C12: a Restore whose bytes do not decode returns the error and leaves the three maps as
\* they were; a Restore that decodes holds the write lock from its first assignment to its
\* last, ends with the three maps of the decoded snapshot, and no reader is inside its read
\* lock, or copies the maps, while only some of them are replaced.
C12_RestoreAllOrNothing ==
    /\ [][(restoreErr' # restoreErr /\ restoreErr' # OK /\ restoreErr' # NoResult)
            => /\ restoreErr' = Err("Undecodable")
               /\ UNCHANGED <<printers, filaments, printJobs, nilMaps>>]_vars
    /\ [][RestoreReturns
            => /\ restoreErr' = OK
               /\ Maps(printers', filaments', printJobs') = wpc.decoded.maps]_vars
    /\ [](RestoreInProgress => mu.writer /\ mu.readers = 0)
    /\ [][SnapshotReturns
            => ~RestoreInProgress /\ SnapshotContents(snapshot', printers, filaments, printJobs)
                                      = committed]_vars

\* C12 witness: a Restore failed to decode earlier and changed nothing; now another Restore
\* holds the lock and has replaced the printers but not yet the filaments and the jobs.
C12_Witness ==
    /\ restoreErr = Err("Undecodable")
    /\ wpc.at = "restoreFilaments"
    /\ printers # committed.printers
    /\ filaments = committed.filaments /\ DOMAIN filaments # {}
    /\ mu.writer

\* C13: the snapshot that Snapshot returns shows the three maps as they were when a writer
\* last released the lock, never a state inside an Apply; and as long as raft holds it,
\* no step of Apply or Restore changes what it shows.
C13_SnapshotIndependence ==
    /\ [][SnapshotReturns
            => /\ wpc.at # "deduct"
               /\ SnapshotContents(snapshot', printers', filaments', printJobs') = committed]_vars
    /\ [][(snapshot # NoSnapshot /\ snapshot' # NoSnapshot /\ ~SnapshotReturns)
            => SnapshotContents(snapshot', printers', filaments', printJobs') = HeldSnapshot]_vars

\* C13 witness: raft holds a snapshot that shows job j as Running with the filament's weight
\* of that time, and a later Apply has set the same job to Done and reduced the weight.
C13_Witness ==
    /\ snapshot # NoSnapshot
    /\ \E j \in DOMAIN snapshot.printJobs :
          /\ HeldSnapshot.printJobs[j].Status = "Running"
          /\ j \in DOMAIN printJobs
          /\ printJobs[j].Status = "Done"
          /\ HeldSnapshot.filaments[printJobs[j].FilamentID].RemainingWeightInGrams
                > filaments[printJobs[j].FilamentID].RemainingWeightInGrams

\* C15: FSM.Apply never aborts the process.
C15_ApplyNeverAborts == result # Panic

\* The values FSM.Apply returns that are errors.
IsFailure(r) == r # OK /\ r # Panic /\ r # NoResult

\* C14: whenever FSM.Apply returns an error, for log data that does not decode, an unknown
\* command type, a missing payload, an unknown printer or filament, a lack of filament, an
\* unknown job or an illegal transition, the three maps and the fields of every entity in
\* them are what they were before the call.
C14_RejectedChangesNothing ==
    \A d \in Commands \cup {Garbage} :
        LET o == After(d)
        IN IsFailure(o.result) =>
              /\ o.printers = printers
              /\ o.filaments = filaments
              /\ o.printJobs = printJobs

\* C14 witness: an update of a stored Running job was refused as an illegal transition, and
\* every kind of entity is stored.
C14_Witness ==
    /\ result = Err("IllegalTransition")
    /\ DOMAIN printers # {} /\ DOMAIN filaments # {}
    /\ \A j \in JobIDs : j \in DOMAIN printJobs /\ printJobs[j].Status = "Running"

\* C16: what Apply computes does not depend on the order in which Go ranges over the job
\* map: for every stored filament, the capacity loop ends with the same available weight in
\* every order, the one the outcome of AddPrintJob is computed from, so two FSMs with equal
\* maps return the same result for the same command and end with equal maps.
C16_OrderIndependent ==
    \A f \in DOMAIN filaments :
        \A order \in Orders(DOMAIN printJobs) :
            /\ RangeJobs(filaments[f].RemainingWeightInGrams, printJobs, f, order)
                  = AvailableWeight(filaments, printJobs, f)
            /\ \A c \in AddPrintJobCmds :
                  (c.PrintJob # Nil /\ c.PrintJob.FilamentID = f /\ HasPrinter(printers, c.PrintJob.PrinterID))
                  => LET o == After(c)
                         available == RangeJobs(filaments[f].RemainingWeightInGrams,
                                                printJobs, f, order)
                     IN IF c.PrintJob.PrintWeightInGrams > available
                        THEN o.result = ErrNotEnough(available, c.PrintJob.PrintWeightInGrams)
                        ELSE o.result \in {OK, Panic}

\* C16 witness: an AddPrintJob was refused for lack of filament after a loop over two
\* stored jobs of one filament, one finished and one still reserving.
C16_Witness ==
    /\ result.kind = "InsufficientCapacity"
    /\ DOMAIN printJobs = JobIDs
    /\ \E f \in DOMAIN filaments :
          /\ \A j \in JobIDs : printJobs[j].FilamentID = f
          /\ \E j \in JobIDs : printJobs[j].Status = "Done"
          /\ \E j \in JobIDs : printJobs[j].Status = "Queued"
          /\ result.args[1] = AvailableWeight(filaments, printJobs, f)

\* The three maps as they will be when the Apply in progress, if any, returns.
WhenApplyReturns ==
    IF wpc.at = "deduct"
    THEN LET job == printJobs[UnmarshalCommand(wpc.data).cmd.JobID]
         IN Maps(printers,
                 [filaments EXCEPT ![job.FilamentID].RemainingWeightInGrams =
                                       Deduct(@, job.PrintWeightInGrams)],
                 printJobs)
    ELSE CurrentMaps

\* What the caller would read from the entities it holds if the maps were those of state.
ViewIn(state) ==
    [printJobs |-> Contents(held.printJobs, state.printJobs),
     filaments |-> Contents(held.filaments, state.filaments)]

\* C17: whatever a caller reads from the entities it got from the read accessors is what
\* the state before the Apply in progress shows, or what the state after it shows; it never
\* reads a job as Done together with the weight its filament had before the deduction.
C17_AtomicVisibility ==
    [][(seen' # seen /\ seen' # NoView)
       => seen' = ViewIn(committed) \/ seen' = ViewIn(WhenApplyReturns)]_vars

\* What a read accessor shows of a command that was applied.
Reflects(cmd, ps, fs, js) ==
    CASE cmd.Type = AddPrinter ->
            cmd.Printer.ID \in DOMAIN ps /\ ps[cmd.Printer.ID] = cmd.Printer
      [] cmd.Type = AddFilament ->
            cmd.Filament.ID \in DOMAIN fs /\ fs[cmd.Filament.ID] = cmd.Filament
      [] cmd.Type = AddPrintJob ->
            /\ cmd.PrintJob.ID \in DOMAIN js
            /\ js[cmd.PrintJob.ID] = [cmd.PrintJob EXCEPT !.Status = "Queued"]
      [] cmd.Type = UpdatePrintJob ->
            cmd.JobID \in DOMAIN js /\ js[cmd.JobID].Status = cmd.NewStatus

\* C18: when Node.Apply returns nil, the FSM of this node has applied the command with
\* success, and its maps, which the read accessors show from then on, hold the command's
\* effect; and when the FSM has applied the command and returned an error, Node.Apply
\* returns an error.
C18_ReadYourWrites ==
    [][nodeCall'.tick # nodeCall.tick
       => LET cmd == nodeCall'.cmd
              o == FSMApply(printers, filaments, printJobs, nilMaps, cmd)
          IN /\ nodeCall'.err = OK =>
                   /\ nodeCall'.applied
                   /\ o.result = OK
                   /\ Maps(printers', filaments', printJobs')
                         = Maps(o.printers, o.filaments, o.printJobs)
                   /\ Reflects(cmd, printers', filaments', printJobs')
             /\ (nodeCall'.applied /\ IsFailure(result')) => IsFailure(nodeCall'.err)]_vars

\* C18 witness: Node.Apply returned nil for the update of a job to Done, and the job map
\* shows the job as Done.
C18_Witness ==
    /\ nodeCall.err = OK
    /\ nodeCall.applied
    /\ nodeCall.cmd.Type = UpdatePrintJob
    /\ nodeCall.cmd.NewStatus = "Done"
    /\ printJobs[nodeCall.cmd.JobID].Status = "Done"

\* C19: an AddPrinter with a payload succeeds, and applied a second time it succeeds again
\* and leaves the state as the first application left it; it changes no printer of another
\* id, no filament and no job.
C19_AddDeviceIdempotent ==
    \A c \in AddPrinterCmds :
        c.Printer # Nil =>
            LET once == After(c)
                twice == FSMApply(once.printers, once.filaments, once.printJobs, nilMaps, c)
            IN /\ once.result = OK
               /\ twice.result = OK
               /\ Maps(twice.printers, twice.filaments, twice.printJobs)
                     = Maps(once.printers, once.filaments, once.printJobs)
               /\ \A id \in DOMAIN printers \ {c.Printer.ID} :
                     id \in DOMAIN once.printers /\ once.printers[id] = printers[id]
               /\ once.filaments = filaments
               /\ once.printJobs = printJobs

\* The bytes of a response body, as a []byte: nil when there are none.
ResponseBytes(net) == IF net.body = "" THEN Nil ELSE Bytes(net.body)

\* C20: on the leader ForwardToLeader returns (nil, nil) and sends nothing; on a node that
\* knows no leader it fails with NoLeaderAvailable and sends nothing; otherwise it sends
\* exactly one request and returns the leader's response when the leader answers with
\* success, and an error on a timeout, a transport failure or another status.
C20_ForwardCases ==
    fwd # NoForward =>
        IF fwd.leader
        THEN fwd.ret = Returned(Nil, OK) /\ fwd.requests = <<>>
        ELSE IF fwd.leaderAddr = <<>>
        THEN fwd.ret = Returned(Nil, Err("NoLeaderAvailable")) /\ fwd.requests = <<>>
        ELSE /\ Len(fwd.requests) = 1
             /\ IF fwd.net.kind = "response"
                   /\ fwd.net.status \in {StatusOK, StatusCreated}
                THEN fwd.ret = Returned(ResponseBytes(fwd.net), OK)
                ELSE IsFailure(fwd.ret.err)

\* The bytes the receiver of a request reads from its body: none from a nil body and none
\* from http.NoBody.
BodyBytes(b) == IF b = Nil \/ b = NoBody THEN "" ELSE b.bytes

\* C21: the request ForwardToLeader sends to the leader has the method, the path and the
\* body bytes of its arguments.
C21_ForwardPreservesRequest ==
    fwd # NoForward =>
        \A i \in DOMAIN fwd.requests :
            /\ fwd.requests[i].method = fwd.method
            /\ fwd.requests[i].path = fwd.path
            /\ BodyBytes(fwd.requests[i].body) = BodyBytes(fwd.body)

\* C22: a write that arrives at a node that does not lead, while raft names a leader, is
\* forwarded to the leader and is not answered with the rejection "not the leader".
C22_AnyNodeAcceptsWrite ==
    (http.at = "done" /\ ~http.leader /\ http.leaderAddr # <<>>) =>
        /\ http.response.requests # <<>>
        /\ http.response.error # "not the leader"

\* The statuses with which the handlers answer a write that was rejected for a domain
\* reason.
DomainRejectionStatuses == {StatusBadRequest, StatusNotFound}

\* C24: on every write endpoint a write rejected for a domain reason is answered with a
\* 4xx status, and a write that could not be routed to or committed by a leader is answered
\* with a status that no domain rejection is answered with.
C24_ErrorClassesDistinct ==
    http.at = "done" =>
        /\ http.cause = "domain" => http.response.status \in 400..499
        /\ http.cause \in {"notLeader", "commit"} =>
               http.response.status \notin DomainRejectionStatuses

\* C23: the handlers of /join and /leave call AddVoter and RemoveServer only on a node that
\* leads when the request arrives; on a node that does not lead a POST is answered with
\* 409 Conflict, no call on raft is made or executed, and no request is sent on.
C23_MembershipOnlyOnLeader ==
    [][(served' # served \/ calls' # calls) =>
           /\ (served'.call # Nil \/ calls' # calls) => raftState.leader
           /\ (~raftState.leader /\ served'.method = "POST") =>
                  /\ served'.status = StatusConflict
                  /\ served'.call = Nil
                  /\ served'.requests = <<>>
                  /\ calls' = calls]_vars

\* A node that does not lead has refused a POST after a join was executed on a leader.
C23_Witness ==
    /\ served # NoServed
    /\ ~served.leader
    /\ served.method = "POST"
    /\ served.status = StatusConflict
    /\ \E c \in calls : c.op = "AddVoter"

\* C29: whenever JoinCluster returns nil, raft has executed AddVoter for that node, and
\* whenever LeaveCluster returns nil, raft has executed RemoveServer for it, on a follower
\* and on the leader.
C29_JoinSuccessMeansChange ==
    (join # NoJoin /\ join.err = OK) =>
        \E c \in calls : c.op = join.op /\ c.id = join.id

\* C28: an applied command removes no id from the three maps: every printer, filament and
\* job id that is present before FSM.Apply is present after it.
C28_KeysOnlyGrow ==
    [][CommandStep =>
          /\ DOMAIN printers \subseteq DOMAIN printers'
          /\ DOMAIN filaments \subseteq DOMAIN filaments'
          /\ DOMAIN printJobs \subseteq DOMAIN printJobs']_vars

\* Every id of the model is stored, and a command has been applied to a job since.
C28_Witness ==
    /\ DOMAIN printers = PrinterIDs
    /\ DOMAIN filaments = FilamentIDs
    /\ DOMAIN printJobs = JobIDs
    /\ \E j \in JobIDs : printJobs[j].Status = "Done"

\* C30: a step of FSM.Apply changes no field of an entity that a read accessor returned
\* before it: what a caller reads through the pointers it holds is the same after the step
\* as before.
C30_ReadResultsStable ==
    [][(<<printers, filaments, printJobs>>' # <<printers, filaments, printJobs>>) =>
           /\ Contents(held'.printJobs, printJobs') = Contents(held.printJobs, printJobs)
           /\ Contents(held'.filaments, filaments') = Contents(held.filaments, filaments)]_vars

\* os.IsNotExist(err)
IsNotExist(err) == err = ErrNotExist \/ (err.kind = "PathError" /\ err.args[2] = "ENOENT")

\* Two results that a caller cannot tell apart: the same value, and the same error or two
\* errors that both say the key does not exist.
SameResult(a, b) ==
    /\ a.val = b.val
    /\ a.err = b.err \/ (IsNotExist(a.err) /\ IsNotExist(b.err))

\* C25: every call returns the same result and the same error on a Store in memory and on
\* a Store on disk that have received the same calls.
C25_StoreModesEquivalent ==
    ret.op # "none" => SameResult(ret.mem, ret.disk)

\* What LoadSnapshot has to return: the bytes of the most recent StoreSnapshot.
IsLatestSnapshot(r) ==
    IF lastSnap = Nil THEN r.val = Nil /\ IsNotExist(r.err)
    ELSE r.val = lastSnap /\ r.err = OK

\* C26: after any Set, Delete and StoreSnapshot calls LoadSnapshot returns the bytes given
\* to the most recent StoreSnapshot, and NotFound when there was none, in both modes.
C26_SnapshotLatestWins ==
    ret.op = "LoadSnapshot" => IsLatestSnapshot(ret.mem) /\ IsLatestSnapshot(ret.disk)

\* The contents a Restore has to leave in a store that held before: those of the backup
\* when it succeeds (the store's own backup holds what the store holds), and those the
\* store had when it fails.
RestoredContents(before, returned, args) ==
    IF returned.err # OK \/ args = <<OwnBackup>> THEN before
    ELSE DecodeStore(args[1]).backup

\* C27: a Restore that succeeds leaves a store with exactly the keys and values of the
\* backup, and a Restore that fails leaves its contents as they were.
C27_RestoreFromBackup ==
    [][ret'.op = "Restore" =>
           /\ mem' = RestoredContents(mem, ret'.mem, ret'.args)
           /\ disk' = RestoredContents(disk, ret'.disk, ret'.args)]_vars

====
